---------------------------- MODULE Spec2Model ----------------------------
(***************************************************************************)
(* A model of the anibridge_providers registry and dynamic-loading         *)
(* subsystem: ProviderDescriptor / ProviderRegistry, the lazily built      *)
(* global registry, the registration decorators, load_entry_points         *)
(* (registry.py) and load_object (loader.py).                              *)
(*                                                                         *)
(* Python strings are sequences of one-character strings, so that          *)
(* str.lower(), str.split() and the "in" test are computed, not assumed.   *)
(***************************************************************************)
EXTENDS Integers, Sequences, FiniteSets, TLC

VARIABLES
    registries,        \* the ProviderRegistry instances built so far: id -> its _providers dict
    _GLOBAL_REGISTRY,  \* the module-level cell: None or a reference to an instance
    last,              \* the most recent API call with its arguments and its outcome
    recent,            \* history: per (kind, lowercased namespace), the descriptor last passed to register
    selected,          \* load_entry_points: the entry points of the group, in enumeration order
    idx,               \* load_entry_points: the position of the for loop in selected
    pc,                \* load_entry_points: "idle", "loop", "returned" or "raised"
    log,               \* the records handed to _LOG, oldest first
    calls,             \* every invocation of a loaded object, oldest first
    exc,               \* the exception that escaped load_entry_points, or "none"
    threads,           \* per thread: its position in the call it is making and its locals
    env,               \* what the interpreter can import, and the attributes that exist
    import_path,       \* the argument of the latest load_object / load_module call
    result,            \* what that call returned or raised
    imports            \* the importlib.import_module calls it made, oldest first

registryVars == <<registries, _GLOBAL_REGISTRY>>
callVars == <<last, recent>>
loaderVars == <<selected, idx, pc, log, calls, exc>>
resolverVars == <<env, import_path, result, imports>>
vars == <<registries, _GLOBAL_REGISTRY, last, recent, selected, idx, pc, log, calls, exc,
          threads, env, import_path, result, imports>>

---------------------------------------------------------------------------
(* Bounds of the model *)

\* longest namespace string handed to the registry
MaxNsLen == 1
\* most entries a registry dict may hold before Register only replaces
MaxProviders == 2
\* most entry points installed in the group
MaxEps == 2
\* longest reference string handed to load_object
MaxRefLen == 5

---------------------------------------------------------------------------
(* Values *)

\* Python's None
None == [tag |-> "None"]

\* a reference to the i-th ProviderRegistry instance (object identity)
Ref(i) == [ref |-> i]

\* class ProviderKind(str, Enum)
ProviderKind == {"library", "list"}

\* provider classes handed to the registry (type[BaseProvider] values)
ProviderClasses == {"ClsA", "ClsB"}

\* the characters namespaces are written with
NsChars == {"a", "A"}

\* all strings over an alphabet up to a length
StringsUpTo(chars, n) == UNION {[1..k -> chars] : k \in 0..n}

\* the namespace strings callers pass
Namespaces == StringsUpTo(NsChars, MaxNsLen)

---------------------------------------------------------------------------
(* str.lower() *)

LowerChar(c) ==
    CASE c = "A" -> "a"
      [] c = "B" -> "b"
      [] c = "M" -> "m"
      [] OTHER -> c

lower(s) == [i \in 1..Len(s) |-> LowerChar(s[i])]

\* the (kind, lowercased namespace) pairs the calls can address
Keys == ProviderKind \X {lower(n) : n \in Namespaces}

---------------------------------------------------------------------------
(* dict: an insertion-ordered sequence of [key, value] items *)

EmptyDict == <<>>

DictHas(d, k) == \E i \in 1..Len(d) : d[i].key = k

\* dict.get(k): the value stored under k, or None
DictGet(d, k) ==
    IF DictHas(d, k)
    THEN d[CHOOSE i \in 1..Len(d) : d[i].key = k].value
    ELSE None

\* d[k] = v: replaces the value in place, or appends a new item
DictSet(d, k, v) ==
    IF DictHas(d, k)
    THEN [i \in 1..Len(d) |-> IF d[i].key = k THEN [key |-> k, value |-> v] ELSE d[i]]
    ELSE Append(d, [key |-> k, value |-> v])

\* list(d.values())
DictValues(d) == [i \in 1..Len(d) |-> d[i].value]

---------------------------------------------------------------------------
(* ProviderDescriptor *)

\* the dataclass constructor followed by __post_init__
ProviderDescriptor(namespace, kind, provider_cls) ==
    [namespace |-> lower(namespace), kind |-> kind, provider_cls |-> provider_cls]

---------------------------------------------------------------------------
(* ProviderRegistry methods, as functions of the instance's _providers *)

\* an insert that never replaces
register_append(_providers, descriptor) ==
    Append(_providers, [key |-> <<descriptor.kind, descriptor.namespace>>,
                        value |-> descriptor])

\* an insert keyed by the namespace alone, whatever the kind
register_by_namespace(_providers, descriptor) ==
    Append(SelectSeq(_providers, LAMBDA item : item.key[2] # descriptor.namespace),
           [key |-> <<descriptor.kind, descriptor.namespace>>, value |-> descriptor])

\* an insert that keeps one provider per kind
register_one_per_kind(_providers, descriptor) ==
    Append(SelectSeq(_providers, LAMBDA item : item.key[1] # descriptor.kind),
           [key |-> <<descriptor.kind, descriptor.namespace>>, value |-> descriptor])

\* the _providers dict after register(descriptor)
register(_providers, descriptor) ==
    LET key == <<descriptor.kind, descriptor.namespace>>
    IN  DictSet(_providers, key, descriptor)

\* a lookup that forgets to lowercase its argument
get_exact(_providers, kind, namespace) ==
    DictGet(_providers, <<kind, namespace>>)

get(_providers, kind, namespace) ==
    DictGet(_providers, <<kind, lower(namespace)>>)

\* a required lookup that hands back None instead of raising
require_silent(_providers, kind, namespace) ==
    get(_providers, kind, namespace)

\* the outcome of require: the descriptor, or the KeyError raised
require(_providers, kind, namespace) ==
    LET descriptor == get(_providers, kind, namespace)
    IN  IF descriptor = None
        THEN [raised |-> "KeyError", namespace |-> namespace, kind |-> kind]
        ELSE descriptor

\* dict.values() of the i-th instance: a view, which shows the dict as it is
\* whenever it is read
dict_values(i) == [view |-> i]

\* what an object shows when it is iterated in a state whose instances are regs
Shows(obj, regs) ==
    IF "view" \in DOMAIN obj THEN DictValues(regs[obj.view]) ELSE obj.items

\* a return of the view itself
no_list(view, regs) == view

\* list(view): a new list object holding the items the view shows now
list(view, regs) == [items |-> Shows(view, regs)]

\* the items of the list available() returns
available(_providers) ==
    Shows(list(dict_values(1), <<_providers>>), <<_providers>>)

---------------------------------------------------------------------------
(* Calls on one registry instance *)

Register ==
    \E kind \in ProviderKind, namespace \in Namespaces, cls \in ProviderClasses :
        LET descriptor == ProviderDescriptor(namespace, kind, cls)
            before == registries[1]
            key == <<descriptor.kind, descriptor.namespace>>
            after == [registries EXCEPT ![1] = register(before, descriptor)]
        IN  /\ Len(before) < MaxProviders \/ DictHas(before, key)
            /\ registries' = after
            /\ last' = [op |-> "register", kind |-> kind, namespace |-> namespace,
                        provider_cls |-> cls, result |-> descriptor,
                        existed |-> DictHas(before, key),
                        lenBefore |-> Len(available(before)),
                        \* the list the call before this one got from available():
                        \* what it showed then and what it shows now
                        earlier |-> IF last.op = "available"
                                    THEN [was |-> last.result,
                                          shows |-> Shows(last.object, after)]
                                    ELSE None]
            /\ recent' = {d \in recent : <<d.kind, d.namespace>> # <<kind, lower(namespace)>>}
                            \cup {descriptor}
            /\ UNCHANGED <<_GLOBAL_REGISTRY, loaderVars, threads, resolverVars>>

Get ==
    \E kind \in ProviderKind, namespace \in Namespaces :
        /\ last' = [op |-> "get", kind |-> kind, namespace |-> namespace,
                    result |-> get(registries[1], kind, namespace)]
        /\ UNCHANGED <<registries, _GLOBAL_REGISTRY, recent, loaderVars, threads, resolverVars>>

Require ==
    \E kind \in ProviderKind, namespace \in Namespaces :
        /\ last' = [op |-> "require", kind |-> kind, namespace |-> namespace,
                    result |-> require(registries[1], kind, namespace)]
        /\ UNCHANGED <<registries, _GLOBAL_REGISTRY, recent, loaderVars, threads, resolverVars>>

Available ==
    /\ last' = [op |-> "available", result |-> available(registries[1]),
                object |-> list(dict_values(1), registries)]
    /\ UNCHANGED <<registries, _GLOBAL_REGISTRY, recent, loaderVars, threads, resolverVars>>

\* load_entry_points has not been called
LoaderIdle ==
    /\ selected = <<>>
    /\ idx = 1
    /\ pc = "idle"
    /\ log = <<>>
    /\ calls = <<>>
    /\ exc = "none"

\* the execution contexts that may reach get_global_registry at the same time
Threads == {"t1", "t2"}

\* no thread has called get_global_registry
ThreadsIdle ==
    threads = [t \in Threads |-> [pc |-> "idle", new |-> None, handle |-> None,
                                   descriptor |-> None]]

\* neither load_object nor load_module has been called
ResolverIdle ==
    /\ env = [modules |-> {}, attrs |-> {}]
    /\ import_path = <<>>
    /\ result = [op |-> "none", outcome |-> "none", msg |-> "", attr |-> <<>>, obj |-> None]
    /\ imports = <<>>

\* one ProviderRegistry() has been constructed; nothing called yet
InitRegistry ==
    /\ registries = <<EmptyDict>>
    /\ _GLOBAL_REGISTRY = None
    /\ last = [op |-> "none"]
    /\ recent = {}
    /\ LoaderIdle
    /\ ThreadsIdle
    /\ ResolverIdle

NextRegistry == Register \/ Get \/ Require \/ Available

SpecRegistry == InitRegistry /\ [][NextRegistry]_vars

---------------------------------------------------------------------------
(* ProviderDescriptor is declared @dataclass(slots=True) without frozen=True: *)
(* its generated __setattr__ is object's, so a caller that holds a descriptor *)
(* (register, get, require and available all hand out the stored object) can  *)
(* assign to its fields, and __post_init__ does not run again.                *)

\* descriptor.namespace = v, descriptor.kind = v or descriptor.provider_cls = v
\* on a descriptor the registry holds
SetAttr ==
    \E i \in 1..Len(registries[1]), field \in {"namespace", "kind", "provider_cls"} :
        \E v \in (CASE field = "namespace" -> Namespaces
                     [] field = "kind" -> ProviderKind
                     [] OTHER -> ProviderClasses) :
            /\ registries' = [registries EXCEPT ![1][i].value[field] = v]
            /\ last' = [op |-> "setattr", item |-> i, field |-> field, value |-> v]
            /\ UNCHANGED <<_GLOBAL_REGISTRY, recent, loaderVars, threads, resolverVars>>

NextDescriptor == Register \/ Get \/ Require \/ Available \/ SetAttr

SpecDescriptor == InitRegistry /\ [][NextDescriptor]_vars

---------------------------------------------------------------------------
(* The global registry and the registration helpers.  The state these run on *)
(* is a record: cell (_GLOBAL_REGISTRY), regs (the instances), returned (the *)
(* value a helper hands back), and for the loader log, calls and raised.     *)

\* the dict of the instance the cell refers to (no instance yet: no entries)
GlobalProviders ==
    IF _GLOBAL_REGISTRY = None THEN EmptyDict ELSE registries[_GLOBAL_REGISTRY.ref]

\* an accessor that builds a registry on every call
get_global_registry_fresh(st) ==
    [st EXCEPT !.cell = Ref(Len(st.regs) + 1), !.regs = Append(st.regs, EmptyDict)]

\* get_global_registry() run to completion: the state it leaves, whose cell is
\* the instance it returns
get_global_registry(st) ==
    IF st.cell = None
    THEN [st EXCEPT !.cell = Ref(Len(st.regs) + 1), !.regs = Append(st.regs, EmptyDict)]
    ELSE st

_register_kind(st, kind, namespace, provider_cls) ==
    LET descriptor == ProviderDescriptor(namespace, kind, provider_cls)
        g == get_global_registry(st)
    IN  [g EXCEPT !.regs[g.cell.ref] = register(@, descriptor),
                  !.returned = provider_cls]

\* register_library_provider(namespace)(cls)
register_library_provider(st, namespace, cls) ==
    _register_kind(st, "library", namespace, cls)

\* a list decorator that files the class under the library kind
register_under_library(st, namespace, cls) ==
    _register_kind(st, "library", namespace, cls)

\* register_list_provider(namespace)(cls)
register_list_provider(st, namespace, cls) ==
    _register_kind(st, "list", namespace, cls)

---------------------------------------------------------------------------
(* What entry points load to *)

\* getattr's default case: the attribute is not there
Missing == [tag |-> "Missing"]
\* a ProviderKind member, as opposed to a plain str of the same spelling
Enum(k) == [enum |-> k]
Str(x) == [str |-> x]

\* a registration function: takes is the set of positional-argument counts its
\* signature accepts ({1}: receives the registry, {0}: registers against the
\* global registry itself, {0, 1}: *args); body is what it does once entered
Function(takes, body, kind, namespace, cls) ==
    [type |-> "function", takes |-> takes, body |-> body, kind |-> kind,
     namespace |-> namespace, cls |-> cls, NAMESPACE |-> Missing, PROVIDER_KIND |-> Missing]

\* a provider class: takes and body describe its constructor (BaseProvider's
\* takes config by keyword only, so no positional argument)
Class(cls, takes, body, NAMESPACE, PROVIDER_KIND) ==
    [type |-> "class", takes |-> takes, body |-> body, kind |-> "",
     namespace |-> <<>>, cls |-> cls, NAMESPACE |-> NAMESPACE, PROVIDER_KIND |-> PROVIDER_KIND]

\* anything else: a module, a string, an instance without __call__
Object ==
    [type |-> "object", takes |-> {}, body |-> "return", kind |-> "",
     namespace |-> <<>>, cls |-> "", NAMESPACE |-> Missing, PROVIDER_KIND |-> Missing]

EntryPoint(name, obj) == [name |-> name, load |-> "ok", obj |-> obj]
\* an entry point whose load() raises
BrokenEntryPoint(name) == [name |-> name, load |-> "raise", obj |-> Object]

\* the entry points an installation may declare in the group
EntryPoints ==
    { BrokenEntryPoint(<<"a">>),
      EntryPoint(<<"a">>, Function({1}, "register", "library", <<"A", "a">>, "ClsA")),
      EntryPoint(<<"a">>, Function({0}, "register", "library", <<"a", "A">>, "ClsB")),
      EntryPoint(<<"a">>, Function({1}, "TypeError", "library", <<"a">>, "ClsA")),
      EntryPoint(<<"a">>, Function({0, 1}, "TypeError", "library", <<"a">>, "ClsA")),
      EntryPoint(<<"a">>, Function({1}, "RuntimeError", "library", <<"a">>, "ClsA")),
      EntryPoint(<<"a">>, Function({0}, "RuntimeError", "library", <<"a">>, "ClsA")),
      EntryPoint(<<"a">>, Class("ClsA", {0}, "return", Str(<<"A">>), Enum("list"))),
      EntryPoint(<<"a">>, Class("ClsB", {0}, "return", Missing, Enum("library"))),
      EntryPoint(<<"a">>, Class("ClsA", {0}, "return", Str(<<"A">>), Missing)),
      EntryPoint(<<"a">>, Class("ClsB", {0, 1}, "return", Str(<<"A">>), Str("list"))),
      EntryPoint(<<"a">>, Class("ClsA", {0}, "RuntimeError", Str(<<"A">>), Enum("list"))),
      EntryPoint(<<"a">>, Object) }

SeqsUpTo(S, n) == UNION {[1..k -> S] : k \in 0..n}

callable(obj) == obj.type \in {"function", "class"}

\* isinstance(obj, type)
isinstance_type(obj) == obj.type = "class"

\* isinstance(kind_value, ProviderKind)
isinstance_ProviderKind(kind_value) == \E k \in ProviderKind : kind_value = Enum(k)

\* obj(registry) or obj(): the call of entry point i's object with args
\* ("registry": the instance in st.cell, "none": no argument).  A call the
\* signature rejects raises TypeError before the body is entered.
Invoke(obj, i, args, st) ==
    LET passed == IF args = "registry" THEN st.cell ELSE None
        entered == (IF args = "registry" THEN 1 ELSE 0) \in obj.takes
        outcome == IF ~entered THEN "TypeError"
                   ELSE IF obj.body \in {"TypeError", "RuntimeError"} THEN obj.body
                   ELSE "none"
        ran == IF entered /\ obj.type = "function" /\ obj.body = "register"
               THEN IF args = "registry"
                    THEN [st EXCEPT !.regs[passed.ref] =
                             register(@, ProviderDescriptor(obj.namespace, obj.kind, obj.cls))]
                    ELSE _register_kind(st, obj.kind, obj.namespace, obj.cls)
               ELSE st
    IN  [ran EXCEPT !.raised = outcome,
                    !.calls = Append(@, [ep |-> i, args |-> args, registry |-> passed,
                                         entered |-> entered, outcome |-> outcome])]

\* one pass through the body of the for loop of load_entry_points, for the
\* entry point at position i
LoopBody(entry_point, i, st) ==
    IF entry_point.load = "raise"
    THEN [st EXCEPT !.log = Append(@, [level |-> "exception", ep |-> i, formats |-> TRUE])]
    ELSE LET obj == entry_point.obj
         IN  IF callable(obj)
             THEN LET first == Invoke(obj, i, "registry", get_global_registry(st))
                  IN  IF first.raised = "TypeError"
                      THEN Invoke(obj, i, "none", [first EXCEPT !.raised = "none"])
                      ELSE first
             ELSE IF isinstance_type(obj)
             THEN LET namespace == IF obj.NAMESPACE = Missing
                                   THEN entry_point.name
                                   ELSE obj.NAMESPACE.str
                      kind_value == obj.PROVIDER_KIND
                  IN  IF ~isinstance_ProviderKind(kind_value)
                      THEN [st EXCEPT !.log = Append(@, [level |-> "warning", ep |-> i,
                                                         formats |-> TRUE])]
                      ELSE _register_kind(st, kind_value.enum, namespace, obj.cls)
             \* the message is an f-string and two arguments are passed besides:
             \* the handler cannot render the record
             ELSE [st EXCEPT !.log = Append(@, [level |-> "warning", ep |-> i,
                                                formats |-> FALSE])]

\* the for loop of load_entry_points from position i on: it ends when the
\* entry points are exhausted or an exception leaves the body
RECURSIVE load_entry_points(_, _, _)
load_entry_points(eps, i, st) ==
    IF i > Len(eps) \/ st.raised # "none"
    THEN st
    ELSE load_entry_points(eps, i + 1, LoopBody(eps[i], i, st))

---------------------------------------------------------------------------
(* load_entry_points and the decorators, in one execution context *)

\* the namespaces the decorators are applied with
DecoratedNamespaces == {<<"A">>}

Here == [cell |-> _GLOBAL_REGISTRY, regs |-> registries, returned |-> None, log |-> log,
         calls |-> calls, raised |-> "none"]

\* get_global_registry() called by the program itself
GetGlobalRegistry ==
    /\ pc # "loop"
    /\ LET st == get_global_registry(Here)
       IN  /\ registries' = st.regs
           /\ _GLOBAL_REGISTRY' = st.cell
           /\ last' = [op |-> "get_global_registry", result |-> st.cell]
    /\ UNCHANGED <<recent, loaderVars, threads, resolverVars>>

\* get_global_registry().get(kind, namespace), .require(kind, namespace) or
\* .available(): the call reads the instance and leaves it as it is
ReadGlobal(op, kind, namespace) ==
    /\ pc # "loop"
    /\ LET st == get_global_registry(Here)
           _providers == st.regs[st.cell.ref]
       IN  /\ registries' = st.regs
           /\ _GLOBAL_REGISTRY' = st.cell
           /\ last' = [op |-> op, kind |-> kind, namespace |-> namespace,
                       result |-> CASE op = "get" -> get(_providers, kind, namespace)
                                    [] op = "require" -> require(_providers, kind, namespace)
                                    [] OTHER -> available(_providers)]
    /\ UNCHANGED <<recent, loaderVars, threads, resolverVars>>

GetOnGlobal ==
    \E kind \in ProviderKind, namespace \in DecoratedNamespaces :
        ReadGlobal("get", kind, namespace)

RequireOnGlobal ==
    \E kind \in ProviderKind, namespace \in DecoratedNamespaces :
        ReadGlobal("require", kind, namespace)

AvailableOnGlobal == ReadGlobal("available", "", <<>>)

Decorate(kind, namespace, cls, st) ==
    /\ pc # "loop"
    /\ \/ Len(GlobalProviders) < MaxProviders
       \/ DictHas(GlobalProviders, <<kind, lower(namespace)>>)
    /\ registries' = st.regs
    /\ _GLOBAL_REGISTRY' = st.cell
    /\ last' = [op |-> "decorate", kind |-> kind, namespace |-> namespace,
                provider_cls |-> cls, result |-> st.returned]
    /\ UNCHANGED <<recent, loaderVars, threads, resolverVars>>

RegisterLibraryProvider ==
    \E namespace \in DecoratedNamespaces, cls \in ProviderClasses :
        Decorate("library", namespace, cls, register_library_provider(Here, namespace, cls))

RegisterListProvider ==
    \E namespace \in DecoratedNamespaces, cls \in ProviderClasses :
        Decorate("list", namespace, cls, register_list_provider(Here, namespace, cls))

\* load_entry_points is called: the group's entry points are enumerated
LoadEntryPoints ==
    /\ pc = "idle"
    /\ \E eps \in SeqsUpTo(EntryPoints, MaxEps) : selected' = eps
    /\ pc' = "loop"
    /\ idx' = 1
    /\ last' = [op |-> "load_entry_points"]
    /\ UNCHANGED <<registryVars, recent, log, calls, exc, threads, resolverVars>>

\* one iteration of the for loop; an exception that leaves the body leaves
\* load_entry_points
ProcessEntry ==
    /\ pc = "loop"
    /\ idx <= Len(selected)
    /\ LET st == LoopBody(selected[idx], idx, Here)
       IN  /\ registries' = st.regs
           /\ _GLOBAL_REGISTRY' = st.cell
           /\ log' = st.log
           /\ calls' = st.calls
           /\ exc' = st.raised
           /\ pc' = IF st.raised = "none" THEN "loop" ELSE "raised"
           /\ idx' = IF st.raised = "none" THEN idx + 1 ELSE idx
    /\ UNCHANGED <<selected, callVars, threads, resolverVars>>

\* the loop is exhausted: load_entry_points returns None
Return ==
    /\ pc = "loop"
    /\ idx > Len(selected)
    /\ pc' = "returned"
    /\ UNCHANGED <<registryVars, callVars, selected, idx, log, calls, exc, threads,
                   resolverVars>>

\* the module has been imported: the cell is unset and no instance exists
InitLoader ==
    /\ registries = <<>>
    /\ _GLOBAL_REGISTRY = None
    /\ last = [op |-> "none"]
    /\ recent = {}
    /\ LoaderIdle
    /\ ThreadsIdle
    /\ ResolverIdle

NextLoader ==
    \/ GetGlobalRegistry
    \/ GetOnGlobal
    \/ RequireOnGlobal
    \/ AvailableOnGlobal
    \/ RegisterLibraryProvider
    \/ RegisterListProvider
    \/ LoadEntryPoints
    \/ ProcessEntry
    \/ Return

SpecLoader == InitLoader /\ [][NextLoader]_vars

---------------------------------------------------------------------------
(* get_global_registry reached by several threads.  The function is not    *)
(* guarded by a lock, so a thread switch can fall between any two of its   *)
(* steps: the test of the cell, the construction, the store to the cell    *)
(* and the load of the cell for the return.                                *)

SetThread(t, r) ==
    /\ threads' = [threads EXCEPT ![t] = r]
    /\ UNCHANGED <<callVars, loaderVars, resolverVars>>

\* if _GLOBAL_REGISTRY is None:
TestCell(t) ==
    /\ threads[t].pc = "idle"
    /\ SetThread(t, [threads[t] EXCEPT
                        !.pc = IF _GLOBAL_REGISTRY = None THEN "construct" ELSE "return"])
    /\ UNCHANGED registryVars

\* ProviderRegistry()
Construct(t) ==
    /\ threads[t].pc = "construct"
    /\ registries' = Append(registries, EmptyDict)
    /\ SetThread(t, [threads[t] EXCEPT !.pc = "store", !.new = Ref(Len(registries) + 1)])
    /\ UNCHANGED _GLOBAL_REGISTRY

\* _GLOBAL_REGISTRY = <the new instance>
StoreCell(t) ==
    /\ threads[t].pc = "store"
    /\ _GLOBAL_REGISTRY' = threads[t].new
    /\ SetThread(t, [threads[t] EXCEPT !.pc = "return"])
    /\ UNCHANGED registries

\* return _GLOBAL_REGISTRY
ReturnCell(t) ==
    /\ threads[t].pc = "return"
    /\ SetThread(t, [threads[t] EXCEPT !.pc = "use", !.handle = _GLOBAL_REGISTRY])
    /\ UNCHANGED registryVars

\* the caller registers a descriptor through the instance it was handed
UseHandle(t) ==
    /\ threads[t].pc = "use"
    /\ \E kind \in ProviderKind, namespace \in DecoratedNamespaces, cls \in ProviderClasses :
        LET descriptor == ProviderDescriptor(namespace, kind, cls)
        IN  /\ registries' = [registries EXCEPT ![threads[t].handle.ref] =
                                 register(@, descriptor)]
            /\ SetThread(t, [threads[t] EXCEPT !.pc = "done", !.descriptor = descriptor])
    /\ UNCHANGED _GLOBAL_REGISTRY

InitThreads ==
    /\ registries = <<>>
    /\ _GLOBAL_REGISTRY = None
    /\ last = [op |-> "none"]
    /\ recent = {}
    /\ LoaderIdle
    /\ ThreadsIdle
    /\ ResolverIdle

NextThreads ==
    \E t \in Threads :
        \/ TestCell(t)
        \/ Construct(t)
        \/ StoreCell(t)
        \/ ReturnCell(t)
        \/ UseHandle(t)

SpecThreads == InitThreads /\ [][NextThreads]_vars

---------------------------------------------------------------------------
(* One register call on an instance while other threads call get, require *)
(* and available on it.  The methods take no lock.  A thread switch can    *)
(* fall between any two steps of a method; one operation on the dict (an   *)
(* item assignment, dict.get, list(dict.values())) is one step of the      *)
(* interpreter.                                                            *)

\* a thread that is in no call
NoCall == [pc |-> "idle", op |-> "none", kind |-> "", namespace |-> <<>>, key |-> <<>>,
           descriptor |-> None, result |-> None]

\* the contents the instance may have when the calls begin
InitialProviders ==
    {EmptyDict}
      \cup {register(EmptyDict, ProviderDescriptor(<<"a">>, k, c)) :
                k \in ProviderKind, c \in ProviderClasses}
      \cup {register(register(EmptyDict, ProviderDescriptor(<<"a">>, "library", c)),
                     ProviderDescriptor(<<"a">>, "list", c)) : c \in ProviderClasses}

SetCall(t, r) ==
    /\ threads' = [threads EXCEPT ![t] = r]
    /\ UNCHANGED <<_GLOBAL_REGISTRY, recent, loaderVars, resolverVars>>

\* register is entered with a constructed descriptor: key = (descriptor.kind,
\* descriptor.namespace)
RegisterKey(t) ==
    /\ threads[t].pc = "idle"
    /\ last.op = "none"
    /\ \A u \in Threads : threads[u].op # "register"
    /\ \E kind \in ProviderKind, namespace \in Namespaces, cls \in ProviderClasses :
          LET descriptor == ProviderDescriptor(namespace, kind, cls)
              key == <<descriptor.kind, descriptor.namespace>>
          IN  /\ Len(registries[1]) < MaxProviders \/ DictHas(registries[1], key)
              /\ SetCall(t, [NoCall EXCEPT !.pc = "store", !.op = "register",
                                           !.kind = kind, !.namespace = namespace,
                                           !.key = key, !.descriptor = descriptor])
    /\ UNCHANGED <<registries, last>>

\* a writer that takes the old entry out before it puts the new one in
RegisterClearThenStore(t) ==
    /\ threads[t].pc = "store"
    /\ IF last.op = "none"
       THEN /\ registries' = [registries EXCEPT ![1] =
                                 SelectSeq(@, LAMBDA item : item.key # threads[t].key)]
            /\ last' = [op |-> "register", before |-> registries[1],
                        result |-> threads[t].descriptor]
            /\ SetCall(t, threads[t])
       ELSE /\ registries' = [registries EXCEPT ![1] =
                                 DictSet(@, threads[t].key, threads[t].descriptor)]
            /\ last' = last
            /\ SetCall(t, [threads[t] EXCEPT !.pc = "return"])

\* self._providers[key] = descriptor
RegisterStore(t) ==
    /\ threads[t].pc = "store"
    /\ registries' = [registries EXCEPT ![1] =
                         DictSet(@, threads[t].key, threads[t].descriptor)]
    /\ last' = [op |-> "register", before |-> registries[1],
                result |-> threads[t].descriptor]
    /\ SetCall(t, [threads[t] EXCEPT !.pc = "return"])

\* return descriptor
RegisterReturn(t) ==
    /\ threads[t].pc = "return"
    /\ SetCall(t, [threads[t] EXCEPT !.pc = "done", !.result = threads[t].descriptor])
    /\ UNCHANGED <<registries, last>>

\* get or require is entered: the key (kind, namespace.lower()) is built
GetKey(t) ==
    /\ threads[t].pc = "idle"
    /\ \E op \in {"get", "require"}, kind \in ProviderKind, namespace \in Namespaces :
          SetCall(t, [NoCall EXCEPT !.pc = "lookup", !.op = op, !.kind = kind,
                                   !.namespace = namespace,
                                   !.key = <<kind, lower(namespace)>>])
    /\ UNCHANGED <<registries, last>>

\* self._providers.get(key); get returns it, require goes on to test it
GetLookup(t) ==
    /\ threads[t].pc = "lookup"
    /\ SetCall(t, [threads[t] EXCEPT
                      !.pc = IF threads[t].op = "require" THEN "test" ELSE "done",
                      !.result = DictGet(registries[1], threads[t].key)])
    /\ UNCHANGED <<registries, last>>

\* if descriptor is None: raise KeyError(...); return descriptor
RequireTest(t) ==
    /\ threads[t].pc = "test"
    /\ SetCall(t, [threads[t] EXCEPT
                      !.pc = "done",
                      !.result = IF threads[t].result = None
                                 THEN [raised |-> "KeyError",
                                       namespace |-> threads[t].namespace,
                                       kind |-> threads[t].kind]
                                 ELSE threads[t].result])
    /\ UNCHANGED <<registries, last>>

\* return list(self._providers.values())
AvailableList(t) ==
    /\ threads[t].pc = "idle"
    /\ SetCall(t, [NoCall EXCEPT !.pc = "done", !.op = "available",
                                 !.result = DictValues(registries[1])])
    /\ UNCHANGED <<registries, last>>

\* a reader whose call is over makes another call
NextCall(t) ==
    /\ threads[t].pc = "done"
    /\ threads[t].op # "register"
    /\ SetCall(t, NoCall)
    /\ UNCHANGED <<registries, last>>

InitConcurrent ==
    /\ \E _providers \in InitialProviders : registries = <<_providers>>
    /\ _GLOBAL_REGISTRY = None
    /\ last = [op |-> "none"]
    /\ recent = {}
    /\ LoaderIdle
    /\ threads = [t \in Threads |-> NoCall]
    /\ ResolverIdle

NextConcurrent ==
    \E t \in Threads :
        \/ RegisterKey(t)
        \/ RegisterStore(t)
        \/ RegisterReturn(t)
        \/ GetKey(t)
        \/ GetLookup(t)
        \/ RequireTest(t)
        \/ AvailableList(t)
        \/ NextCall(t)

SpecConcurrent == InitConcurrent /\ [][NextConcurrent]_vars

---------------------------------------------------------------------------
(* loader.py: load_object and load_module *)

\* the characters references are written with
RefChars == {"m", "a", ":", "."}

References == StringsUpTo(RefChars, MaxRefLen)

\* c in s
Contains(s, c) == \E i \in 1..Len(s) : s[i] = c

\* s.index(c)
Find(s, c) == CHOOSE i \in 1..Len(s) : s[i] = c /\ \A j \in 1..(i - 1) : s[j] # c

\* s.split(sep, 1), for s that contains sep
SplitOnce(s, sep) ==
    LET i == Find(s, sep)
    IN  <<SubSeq(s, 1, i - 1), SubSeq(s, i + 1, Len(s))>>

\* s.split(sep)
RECURSIVE Split(_, _)
Split(s, sep) ==
    IF ~Contains(s, sep)
    THEN <<s>>
    ELSE LET i == Find(s, sep)
         IN  <<SubSeq(s, 1, i - 1)>> \o Split(SubSeq(s, i + 1, Len(s)), sep)

Raised(exception, msg, attr) ==
    [outcome |-> exception, msg |-> msg, attr |-> attr, obj |-> None]

Returned(obj) == [outcome |-> "returned", msg |-> "", attr |-> <<>>, obj |-> obj]

\* importlib.import_module(name) without a package argument
import_module(name, e) ==
    IF name = <<>> THEN Raised("ValueError", "empty module name", <<>>)
    ELSE IF name[1] = "." THEN Raised("TypeError", "relative import", <<>>)
    ELSE IF name \in e.modules THEN Returned([module |-> name, path |-> <<>>])
    ELSE Raised("ImportError", "no module", <<>>)

\* an object is known by the module it was reached from and the attribute
\* path that led to it
hasattr(obj, attr, e) == Append(obj.path, attr) \in e.attrs

getattr(obj, attr) == [obj EXCEPT !.path = Append(@, attr)]

\* a walk that tests the last hop only
walk_last_hop(obj, attrs, e) ==
    IF attrs = <<>> THEN Returned(obj)
    ELSE IF (obj.path \o attrs) \notin e.attrs
    THEN Raised("ValueError", "attribute", attrs[Len(attrs)])
    ELSE Returned([obj EXCEPT !.path = @ \o attrs])

\* the for loop of load_object over the segments still to resolve
RECURSIVE Walk(_, _, _)
Walk(obj, attrs, e) ==
    IF attrs = <<>> THEN Returned(obj)
    ELSE IF ~hasattr(obj, Head(attrs), e)
    THEN Raised("ValueError", "attribute", Head(attrs))
    ELSE Walk(getattr(obj, Head(attrs)), Tail(attrs), e)

\* a resolver that does not look at the two sides of the separator
load_object_unchecked(path, e) ==
    IF ~Contains(path, ":")
    THEN [result |-> Raised("ValueError", "format", <<>>), imports |-> <<>>]
    ELSE LET module_path == SplitOnce(path, ":")[1]
             qualname == SplitOnce(path, ":")[2]
             module == import_module(module_path, e)
         IN  IF module.outcome # "returned"
             THEN [result |-> module, imports |-> <<module_path>>]
             ELSE [result |-> Walk(module.obj, Split(qualname, "."), e),
                   imports |-> <<module_path>>]

\* load_object(import_path): what it returns or raises, and the imports it made
load_object(path, e) ==
    IF ~Contains(path, ":")
    THEN [result |-> Raised("ValueError", "format", <<>>), imports |-> <<>>]
    ELSE LET module_path == SplitOnce(path, ":")[1]
             qualname == SplitOnce(path, ":")[2]
         IN  IF module_path = <<>> \/ qualname = <<>>
             THEN [result |-> Raised("ValueError", "required", <<>>), imports |-> <<>>]
             ELSE LET module == import_module(module_path, e)
                  IN  IF module.outcome # "returned"
                      THEN [result |-> module, imports |-> <<module_path>>]
                      ELSE [result |-> Walk(module.obj, Split(qualname, "."), e),
                            imports |-> <<module_path>>]

\* load_module(module_path)
load_module(module_path, e) ==
    IF module_path = <<>>
    THEN [result |-> Raised("ValueError", "empty", <<>>), imports |-> <<>>]
    ELSE [result |-> import_module(module_path, e), imports |-> <<module_path>>]

\* the call is made and its outcome observed; the functions keep no state, so
\* one call per behaviour shows all they do
Resolved(op, path, r) ==
    /\ result.op = "none"
    /\ import_path' = path
    /\ result' = [op |-> op, outcome |-> r.result.outcome, msg |-> r.result.msg,
                  attr |-> r.result.attr, obj |-> r.result.obj]
    /\ imports' = r.imports
    /\ UNCHANGED <<env, registryVars, callVars, loaderVars, threads>>

LoadObject == \E path \in References : Resolved("load_object", path, load_object(path, env))

\* the module paths load_module is tried with
ModulePaths == {<<>>, <<"m">>, <<"a">>, <<".", "m">>}

LoadModule == \E path \in ModulePaths : Resolved("load_module", path, load_module(path, env))

\* the attribute paths that may exist under an importable module
AttrPaths == {<< <<"a">> >>, << <<"a">>, <<"a">> >>, << <<"a">>, <<"m">> >>, << <<"m">> >>}

\* some interpreter: module m importable or not, any set of attributes there
InitResolver ==
    /\ registries = <<>>
    /\ _GLOBAL_REGISTRY = None
    /\ last = [op |-> "none"]
    /\ recent = {}
    /\ LoaderIdle
    /\ ThreadsIdle
    /\ env \in [modules : SUBSET {<<"m">>}, attrs : SUBSET AttrPaths]
    /\ import_path = <<>>
    /\ result = [op |-> "none", outcome |-> "none", msg |-> "", attr |-> <<>>, obj |-> None]
    /\ imports = <<>>

NextResolver == LoadObject \/ LoadModule

SpecResolver == InitResolver /\ [][NextResolver]_vars

---------------------------------------------------------------------------
(* Properties of load_entry_points *)

\* the entry point handled by the latest iteration of the loop
JustHandled == IF pc = "raised" THEN idx ELSE idx - 1

LoopRan == pc \in {"loop", "returned", "raised"} /\ JustHandled >= 1

\* a class-style plugin with a recognized kind attribute
IsProviderClass(ep) ==
    /\ ep.load = "ok"
    /\ ep.obj.type = "class"
    /\ ep.obj.PROVIDER_KIND \in {Enum(k) : k \in ProviderKind}

\* a class-style plugin whose kind attribute is missing or no ProviderKind
IsKindlessClass(ep) ==
    /\ ep.load = "ok"
    /\ ep.obj.type = "class"
    /\ ep.obj.PROVIDER_KIND \notin {Enum(k) : k \in ProviderKind}

\* a registration function that registers a descriptor when called
IsRegistration(ep) ==
    /\ ep.load = "ok"
    /\ ep.obj.type = "function"
    /\ ep.obj.body = "register"

\* the descriptor a healthy plugin stands for
Provides(ep) ==
    IF ep.obj.type = "class"
    THEN [namespace |-> lower(IF ep.obj.NAMESPACE = Missing THEN ep.name
                              ELSE ep.obj.NAMESPACE.str),
          kind |-> ep.obj.PROVIDER_KIND.enum, provider_cls |-> ep.obj.cls]
    ELSE [namespace |-> lower(ep.obj.namespace), kind |-> ep.obj.kind,
          provider_cls |-> ep.obj.cls]

\* the plugin raises once it is called
RaisesInside(ep) == ep.load = "ok" /\ ep.obj.body \in {"TypeError", "RuntimeError"}

LoadFailures == {j \in 1..Len(selected) : selected[j].load = "raise"}

CallsOf(j) == SelectSeq(calls, LAMBDA c : c.ep = j)

LogsOf(j, level) == SelectSeq(log, LAMBDA r : r.ep = j /\ r.level = level)

\* C4: with exactly one entry raising while being loaded (and no other entry
\* raising at all), load_entry_points returns without an exception, has logged
\* exactly one failure, and every other plugin's descriptor is in the global
\* registry, wherever the failing entry is.
C4_OneLoadFailure ==
    ( /\ pc \in {"returned", "raised"}
      /\ Cardinality(LoadFailures) = 1
      /\ \A j \in 1..Len(selected) : ~RaisesInside(selected[j]) )
    => /\ pc = "returned"
       /\ exc = "none"
       /\ Len(SelectSeq(log, LAMBDA r : r.level = "exception")) = 1
       /\ \A j \in 1..Len(selected) :
            (IsRegistration(selected[j]) \/ IsProviderClass(selected[j])) =>
                LET d == Provides(selected[j])
                IN  \E i \in 1..Len(GlobalProviders) :
                        /\ GlobalProviders[i].value.kind = d.kind
                        /\ GlobalProviders[i].value.namespace = d.namespace

\* C5: a loaded registration callable that raises while being invoked does not
\* make load_entry_points raise, and the later entries are still processed.
C5_CallableFailureIsolated ==
    (\E n \in 1..Len(calls) :
        /\ selected[calls[n].ep].obj.type = "function"
        /\ calls[n].outcome # "none")
    => /\ pc # "raised"
       /\ exc = "none"
       /\ pc = "returned" => idx = Len(selected) + 1

\* C6: an entry point that loads to a provider class with a recognized kind is
\* registered in the global registry under (kind, NAMESPACE or else the entry
\* point's name), and is not invoked as a registration function.
C6_ProviderClassRegistered ==
    (LoopRan /\ IsProviderClass(selected[JustHandled])) =>
        /\ get(GlobalProviders, Provides(selected[JustHandled]).kind,
               Provides(selected[JustHandled]).namespace)
             = Provides(selected[JustHandled])
        /\ CallsOf(JustHandled) = <<>>

\* C7: an entry point that loads to a provider class without a recognized kind
\* adds no registry entry, leaves the descriptors already registered as they
\* were, and emits exactly one warning.
C7_KindlessClassSkipped ==
    [][ (pc = "loop" /\ idx <= Len(selected) /\ IsKindlessClass(selected[idx])) =>
            /\ GlobalProviders' = GlobalProviders
            /\ log' = Append(log, [level |-> "warning", ep |-> idx, formats |-> TRUE])
            /\ pc' = "loop" ]_vars

\* C9: a registration callable is first invoked with the global registry as its
\* sole argument; it is invoked again, with no arguments, only when that first
\* call was rejected by its signature; one that accepts the registry is invoked
\* exactly once.
C9_RetryOnlyOnArity ==
    \A j \in 1..Len(selected) :
        (selected[j].obj.type = "function" /\ CallsOf(j) # <<>>) =>
            LET cs == CallsOf(j)
            IN  /\ cs[1].args = "registry"
                /\ cs[1].registry # None
                /\ cs[1].registry = _GLOBAL_REGISTRY
                /\ Len(cs) <= 2
                /\ Len(cs) = 2 => (cs[2].args = "none" /\ ~cs[1].entered)
                /\ 1 \in selected[j].obj.takes => Len(cs) = 1

\* C8: when two threads call get_global_registry while the cell is unset, both
\* are handed the identical instance, one ProviderRegistry at most is ever
\* constructed, and a registration made through one handle is found through
\* the other.
C8_OneGlobalRegistry ==
    /\ Len(registries) <= 1
    /\ \A t \in Threads, u \in Threads :
          (threads[t].handle # None /\ threads[u].handle # None) =>
              /\ threads[t].handle = threads[u].handle
              /\ threads[t].pc = "done" =>
                    get(registries[threads[u].handle.ref], threads[t].descriptor.kind,
                        threads[t].descriptor.namespace) # None

---------------------------------------------------------------------------
(* Properties of the decorators and the global registry *)

\* C12: register_library_provider(ns)(cls) and register_list_provider(ns)(cls)
\* return cls itself and leave the global registry mapping (library, lowercase
\* ns), respectively (list, lowercase ns), to a descriptor whose implementation
\* is cls, whatever cls is and whatever was registered or loaded before.
C12_DecoratorRegisters ==
    last.op = "decorate" =>
        /\ last.result = last.provider_cls
        /\ _GLOBAL_REGISTRY # None
        /\ DictGet(GlobalProviders, <<last.kind, lower(last.namespace)>>)
             = [namespace |-> lower(last.namespace), kind |-> last.kind,
                provider_cls |-> last.provider_cls]

\* a class decorated as list provider "A" while another one is library provider "a"
C12_Witness ==
    /\ last.op = "decorate"
    /\ pc = "returned"
    /\ last.kind = "list"
    /\ last.namespace = <<"A">>
    /\ last.result = "ClsB"
    /\ get(GlobalProviders, "list", <<"a">>).provider_cls = "ClsB"
    /\ get(GlobalProviders, "library", <<"a">>) # None
    /\ get(GlobalProviders, "library", <<"a">>).provider_cls = "ClsA"

\* C17: in one execution context, whatever the sequence of get_global_registry,
\* decorator and load_entry_points calls, at most one ProviderRegistry is ever
\* constructed, and only once the cell is accessed; once set the cell keeps
\* referring to that instance, every get_global_registry returns it, and every
\* item registered in it before a step is an item of it after the step.
C17_GlobalCellSetOnce ==
    [][ /\ Len(registries') <= 1
        /\ (_GLOBAL_REGISTRY' = None) = (registries' = <<>>)
        /\ _GLOBAL_REGISTRY # None => _GLOBAL_REGISTRY' = _GLOBAL_REGISTRY
        /\ last'.op = "get_global_registry" =>
              /\ last'.result = _GLOBAL_REGISTRY'
              /\ last'.result = Ref(1)
        /\ \A i \in 1..Len(GlobalProviders) :
              DictHas(GlobalProviders', GlobalProviders[i].key) ]_vars

\* get_global_registry, called after a decorator and a load_entry_points run
\* that both registered, returns the instance holding both registrations
C17_Witness ==
    /\ last.op = "get_global_registry"
    /\ last.result = _GLOBAL_REGISTRY
    /\ pc = "returned"
    /\ Len(registries) = 1
    /\ get(GlobalProviders, "list", <<"A">>) # None
    /\ \E i \in 1..Len(GlobalProviders) : GlobalProviders[i].key = <<"library", <<"a", "a">>>>

\* the spellings of a stored namespace a caller may ask for
Spellings(ns) == {ns, [i \in 1..Len(ns) |-> IF ns[i] = "a" THEN "A" ELSE ns[i]]}

\* C19: no step of get_global_registry, get, require, available, the
\* decorators or load_entry_points that changes the global registry takes a key
\* out of it: where get(kind, namespace) returns a descriptor before the step,
\* it returns one after it and require(kind, namespace) returns that one too.
C19_KeysOnlyGrow ==
    [][ registryVars' # registryVars =>
          \A i \in 1..Len(GlobalProviders) :
              /\ DictHas(GlobalProviders', GlobalProviders[i].key)
              /\ \A namespace \in Spellings(GlobalProviders[i].key[2]) :
                    LET kind == GlobalProviders[i].key[1]
                    IN  /\ get(GlobalProviders, kind, namespace) # None
                        /\ get(GlobalProviders', kind, namespace) # None
                        /\ require(GlobalProviders', kind, namespace)
                              = get(GlobalProviders', kind, namespace) ]_vars

\* after load_entry_points and the decorators have both registered, a require
\* of a decorated provider succeeds
C19_Witness ==
    /\ last.op = "require"
    /\ pc = "returned"
    /\ last.namespace = <<"A">>
    /\ last.result = get(GlobalProviders, last.kind, <<"a">>)
    /\ last.result # None
    /\ Len(GlobalProviders) = MaxProviders
    /\ get(GlobalProviders, "library", <<"a", "a">>) # None

\* the same entry points in every order of enumeration
Orders(eps) ==
    {[i \in 1..Len(eps) |-> eps[order[i]]] : order \in Permutations(1..Len(eps))}

\* the mapping held by the global registry of a state: its set of items
Contents(st) ==
    IF st.cell = None THEN {}
    ELSE {st.regs[st.cell.ref][i] : i \in 1..Len(st.regs[st.cell.ref])}

\* C15: from the state load_entry_points is called in, the global registry ends
\* with the same mapping whatever the order in which the entry points of the
\* group are enumerated.
C15_OrderIndependent ==
    (pc = "loop" /\ idx = 1) =>
        \A eps \in Orders(selected) :
            Contents(load_entry_points(eps, 1, Here))
                = Contents(load_entry_points(selected, 1, Here))

---------------------------------------------------------------------------
(* Properties of load_object *)

NoSeparator(ref) == \A i \in 1..Len(ref) : ref[i] # ":"

\* nothing stands before the first separator
EmptyContainer(ref) == Len(ref) >= 1 /\ ref[1] = ":"

\* nothing stands after the first separator
EmptyName(ref) ==
    /\ Len(ref) >= 1
    /\ ref[Len(ref)] = ":"
    /\ \A j \in 1..(Len(ref) - 1) : ref[j] # ":"

InvalidReference(r) == r.outcome = "ValueError" /\ r.msg \in {"format", "required"}

\* the text before the first separator
ContainerOf(ref) ==
    SubSeq(ref, 1, (CHOOSE i \in 1..Len(ref) :
                        ref[i] = ":" /\ \A j \in 1..(i - 1) : ref[j] # ":") - 1)

\* the text after the first separator
NameOf(ref) == SubSeq(ref, Len(ContainerOf(ref)) + 2, Len(ref))

\* every hop of the dotted name exists in turn
AllExist(segments) == \A k \in 1..Len(segments) : SubSeq(segments, 1, k) \in env.attrs

\* C10: load_object fails with the invalid-reference error, before any import is
\* attempted, for every reference without ":", with nothing before it or with
\* nothing after it; any other reference passes that check, the container is
\* imported once, and the outcome is decided by whether the container and the
\* dotted segments exist.
C10_InvalidReference ==
    result.op = "load_object" =>
        IF NoSeparator(import_path) \/ EmptyContainer(import_path) \/ EmptyName(import_path)
        THEN InvalidReference(result) /\ imports = <<>>
        ELSE /\ ~InvalidReference(result)
             /\ imports = <<ContainerOf(import_path)>>
             /\ IF ContainerOf(import_path) \notin env.modules
                THEN result.outcome \in {"ImportError", "TypeError"}
                ELSE IF AllExist(Split(NameOf(import_path), "."))
                THEN result.outcome = "returned"
                ELSE result.outcome = "ValueError" /\ result.msg = "attribute"

\* "m:" is refused although m could be imported, and nothing was imported
C10_Witness ==
    /\ result.op = "load_object"
    /\ import_path = <<"m", ":">>
    /\ <<"m">> \in env.modules
    /\ InvalidReference(result)
    /\ imports = <<>>

\* the reference has one separator, with text on both sides
OneSeparator(ref) ==
    /\ Cardinality({i \in 1..Len(ref) : ref[i] = ":"}) = 1
    /\ ~EmptyContainer(ref)
    /\ ~EmptyName(ref)

\* the positions of the dots of a dotted name, with both ends as sentinels
DotsOf(name) == {0, Len(name) + 1} \cup {i \in 1..Len(name) : name[i] = "."}

\* the k-th smallest member of a set of numbers
Nth(S, k) == CHOOSE i \in S : Cardinality({j \in S : j < i}) = k - 1

\* the segments of a dotted name, left to right
SegmentsOf(name) ==
    [k \in 1..(Cardinality(DotsOf(name)) - 1) |->
        SubSeq(name, Nth(DotsOf(name), k) + 1, Nth(DotsOf(name), k + 1) - 1)]

\* the hops at which the object resolved so far lacks the segment
MissingHops(segments) ==
    {k \in 1..Len(segments) : SubSeq(segments, 1, k) \notin env.attrs}

\* C11: for a valid reference whose container is imported, load_object returns
\* the object reached through all the segments of the dotted name when every
\* segment exists on the object resolved before it, and otherwise fails with
\* the attribute error that names the leftmost missing segment.
C11_WalksEveryHop ==
    ( /\ result.op = "load_object"
      /\ OneSeparator(import_path)
      /\ ContainerOf(import_path) \in env.modules )
    => LET segments == SegmentsOf(NameOf(import_path))
       IN  IF MissingHops(segments) = {}
           THEN /\ result.outcome = "returned"
                /\ result.obj = [module |-> ContainerOf(import_path), path |-> segments]
           ELSE /\ result.outcome = "ValueError"
                /\ result.msg = "attribute"
                /\ result.attr = segments[Nth(MissingHops(segments), 1)]
                /\ result.obj = None

\* "m:a.m" where m has an attribute m but none named a: the error names a
C11_Witness ==
    /\ result.op = "load_object"
    /\ import_path = <<"m", ":", "a", ".", "m">>
    /\ <<"m">> \in env.modules
    /\ << <<"a">> >> \notin env.attrs
    /\ << <<"m">> >> \in env.attrs
    /\ result.outcome = "ValueError"
    /\ result.msg = "attribute"
    /\ result.attr = <<"a">>

\* the number of separators in the reference
Separators(ref) == Cardinality({i \in 1..Len(ref) : ref[i] = ":"})

\* C18: a reference with two or more ":" is refused with the invalid-reference
\* error, before any import is attempted; it is not split at its first ":" and
\* resolved with the rest as the dotted name.
C18_OneSeparatorOnly ==
    (result.op = "load_object" /\ Separators(import_path) >= 2) =>
        /\ InvalidReference(result)
        /\ imports = <<>>

---------------------------------------------------------------------------
(* Properties of the registry *)

UpperChars == {"A", "B", "M"}

\* s and t are the same string up to the case of their letters
CasingVariant(s, t) ==
    /\ Len(s) = Len(t)
    /\ \A i \in 1..Len(s) :
          \/ s[i] = t[i]
          \/ {s[i], t[i]} \in {{"a", "A"}, {"b", "B"}, {"m", "M"}}

AllLowercase(s) == \A i \in 1..Len(s) : s[i] \notin UpperChars

\* the descriptors of a registry stored for kind and a namespace spelled like ns
StoredFor(_providers, kind, ns) ==
    {i \in 1..Len(_providers) :
        /\ _providers[i].value.kind = kind
        /\ CasingVariant(_providers[i].value.namespace, ns)}

\* C1: after register(ProviderDescriptor(namespace, kind, impl)), get(kind, ns') for
\* every casing variant ns' of the namespace returns a descriptor with that kind,
\* that implementation and the all-lowercase spelling of the input namespace.
C1_RegisterThenGet ==
    last.op = "register" =>
        \A ns \in Namespaces :
            CasingVariant(ns, last.namespace) =>
                LET d == get(registries[1], last.kind, ns)
                IN  /\ d # None
                    /\ d.kind = last.kind
                    /\ d.provider_cls = last.provider_cls
                    /\ AllLowercase(d.namespace)
                    /\ CasingVariant(d.namespace, last.namespace)

\* an upper-case registration found again under the lower-case spelling
C1_Witness ==
    /\ last.op = "register"
    /\ last.namespace = <<"A">>
    /\ get(registries[1], last.kind, <<"a">>) = last.result
    /\ last.result.namespace = <<"a">>

\* C2: a registry holds at most one descriptor per (kind, lowercased namespace)
\* pair, and it is the one of the most recent register at that pair; registering
\* at a pair already present does not raise and leaves len(available()) unchanged.
C2_LastWriteWins ==
    /\ \A k \in Keys :
          /\ Cardinality(StoredFor(registries[1], k[1], k[2])) <= 1
          /\ Cardinality({i \in 1..Len(registries[1]) : registries[1][i].key = k}) <= 1
          /\ {registries[1][i].value : i \in StoredFor(registries[1], k[1], k[2])}
                = {d \in recent : d.kind = k[1] /\ CasingVariant(d.namespace, k[2])}
    /\ last.op = "register" =>
          /\ last.result \in recent
          /\ last.existed => Len(available(registries[1])) = last.lenBefore

\* a pair registered a second time, with another class, under another spelling
C2_Witness ==
    /\ last.op = "register"
    /\ last.existed
    /\ last.provider_cls = "ClsB"
    /\ last.namespace = <<"A">>
    /\ Len(available(registries[1])) = MaxProviders
    /\ available(registries[1])[1] = [namespace |-> <<"a">>, kind |-> last.kind,
                                       provider_cls |-> "ClsB"]

\* the registry has an item for kind and a namespace spelled like ns
HasEntry(_providers, kind, ns) == StoredFor(_providers, kind, ns) # {}

\* C3: where no entry exists, require fails with the KeyError naming the namespace
\* and the kind while get returns None; where one exists, require returns what
\* get returns.
C3_RequireVersusGet ==
    /\ \A kind \in ProviderKind, ns \in Namespaces :
          LET g == get(registries[1], kind, ns)
              r == require(registries[1], kind, ns)
          IN  IF HasEntry(registries[1], kind, ns)
              THEN g # None /\ r = g
              ELSE /\ g = None
                   /\ r = [raised |-> "KeyError", namespace |-> ns, kind |-> kind]
    /\ last.op = "require" =>
          IF HasEntry(registries[1], last.kind, last.namespace)
          THEN last.result = get(registries[1], last.kind, last.namespace)
          ELSE last.result = [raised |-> "KeyError", namespace |-> last.namespace,
                              kind |-> last.kind]

\* a require that failed on a registry holding other entries
C3_Witness ==
    /\ last.op = "require"
    /\ last.result = [raised |-> "KeyError", namespace |-> <<"A">>, kind |-> "list"]
    /\ get(registries[1], "library", <<"A">>) # None

\* C13: register(descriptor) leaves the entry at every key other than
\* (descriptor.kind, descriptor.namespace) as it was, present or absent; the
\* same namespace under the other kind is such a key.
C13_RegisterFrame ==
    [][ (last' # last /\ last'.op = "register") =>
            /\ DictGet(registries'[1], <<last'.kind, lower(last'.namespace)>>) = last'.result
            /\ \A k \in Keys :
                  k # <<last'.kind, lower(last'.namespace)>> =>
                      /\ DictHas(registries'[1], k) = DictHas(registries[1], k)
                      /\ DictGet(registries'[1], k) = DictGet(registries[1], k) ]_vars

\* list provider "a" replaced while library provider "a" keeps its class
C13_Witness ==
    /\ last.op = "register"
    /\ last.kind = "list"
    /\ last.existed
    /\ last.provider_cls = "ClsB"
    /\ last.namespace = <<"a">>
    /\ get(registries[1], "list", <<"a">>) = last.result
    /\ get(registries[1], "library", <<"a">>) # None
    /\ get(registries[1], "library", <<"a">>).provider_cls = "ClsA"

\* C16: every descriptor a registry holds has an all-lowercase namespace and is
\* stored under the key (its kind, its namespace), so get(d.kind, d.namespace)
\* returns d for every d of available(); nothing a caller can do to a
\* descriptor after its construction breaks this.
C16_DescriptorsKeyed ==
    /\ \A i \in 1..Len(registries[1]) :
          /\ AllLowercase(registries[1][i].value.namespace)
          /\ registries[1][i].key = <<registries[1][i].value.kind,
                                      registries[1][i].value.namespace>>
    /\ \A n \in 1..Len(available(registries[1])) :
          LET d == available(registries[1])[n]
          IN  get(registries[1], d.kind, d.namespace) = d

\* C20: a get, a require (whether it returns or raises KeyError) and an
\* available leave the registry's mapping as it was, and the list an available
\* call returned shows after a later register what it showed when returned.
C20_ReadsLeaveMapping ==
    [][ /\ (last' # last /\ last'.op \in {"get", "require", "available"}) =>
              registries' = registries
        /\ (last' # last /\ last'.op = "register" /\ last'.earlier # None) =>
              /\ last'.earlier.shows = last'.earlier.was
              /\ last'.earlier.was = available(registries[1]) ]_vars

\* a list returned by available() is one item shorter than the registry after
\* the register that followed
C20_Witness ==
    /\ last.op = "register"
    /\ ~last.existed
    /\ last.earlier # None
    /\ last.earlier.shows = last.earlier.was
    /\ Len(last.earlier.shows) = 1
    /\ Len(available(registries[1])) = MaxProviders

---------------------------------------------------------------------------
(* Properties of concurrent calls on one registry *)

\* the dict as it was when the register call stored its item
Before == IF last.op = "register" THEN last.before ELSE registries[1]

\* the item is a whole descriptor under its own key
WholeEntry(item) ==
    /\ item.value \in [namespace : {lower(n) : n \in Namespaces}, kind : ProviderKind,
                        provider_cls : ProviderClasses]
    /\ item.key = <<item.value.kind, item.value.namespace>>

\* C14: with one register call running against get, require and available
\* calls of other threads, the dict holds whole entries only, and what a reader
\* is handed is what the same call yields on the dict as it was before the
\* store or on the dict as it is after it: for get the old or the new
\* descriptor (or None where there was none), for require that or the KeyError
\* of a key absent at the lookup, for available the old or the new list.
C14_ReadersSeeOldOrNew ==
    /\ \A i \in 1..Len(registries[1]) : WholeEntry(registries[1][i])
    /\ \A t \in Threads :
          threads[t].pc = "done" =>
              CASE threads[t].op = "get" ->
                      threads[t].result \in
                          {get(Before, threads[t].kind, threads[t].namespace),
                           get(registries[1], threads[t].kind, threads[t].namespace)}
                [] threads[t].op = "require" ->
                      threads[t].result \in
                          {require(Before, threads[t].kind, threads[t].namespace),
                           require(registries[1], threads[t].kind, threads[t].namespace)}
                [] threads[t].op = "available" ->
                      threads[t].result \in {available(Before), available(registries[1])}
                [] OTHER -> threads[t].result = threads[t].descriptor

\* a get that looked the key up before the store returned the old descriptor
\* after it, and the register has returned the new one
C14_Witness ==
    \E t \in Threads, u \in Threads :
        /\ threads[t].op = "register"
        /\ threads[t].pc = "done"
        /\ threads[u].op = "get"
        /\ threads[u].pc = "done"
        /\ threads[u].result # None
        /\ threads[u].result = get(Before, threads[u].kind, threads[u].namespace)
        /\ get(registries[1], threads[u].kind, threads[u].namespace) = threads[t].result
        /\ threads[u].result # threads[t].result

===========================================================================
